---------------------------- MODULE Spec2Model ----------------------------
(***************************************************************************)
(* Model of mechanical_testing.TensileTest (the construction pipeline of   *)
(* src/mechanical_testing/TensileTest.py) and of the batch loop of         *)
(* src/scripts/run_all_tensile_tests.py.                                   *)
(*                                                                         *)
(* Numbers.  The program computes in IEEE doubles; the model computes in   *)
(* exact rational arithmetic ([n |-> numerator, d |-> denominator],        *)
(* normalised).  Python indices are kept: At(s, i) is s[i], Prefix(s, L)   *)
(* is s[:L].  Units: area is held in units of pi/4 (area = diameter^2),    *)
(* hence stress in units of 4/pi.  residual = sqrt(cov[0][0]) is held as   *)
(* its square cov[0][0]; sqrt is increasing, so every comparison of two    *)
(* residuals is the comparison of their squares.                           *)
(***************************************************************************)
EXTENDS Integers, Sequences, FiniteSets, TLC

VARIABLES
    batch,        \* position of the batch loop in files_lengths_diameters (1-based)
    pc,           \* the next statement of the driver / of TensileTest.__init__
    args,         \* the arguments (file, length, diameter) of the running constructor call
    self,         \* the TensileTest object: attribute name -> value (only assigned attributes)
    writes,       \* attribute name -> number of assignments during the running construction
    stages,       \* the methods __init__ has completed, in order
    warned,       \* files named by warnings.warn during the running construction
    error,        \* the exception that ended the script, or "none"
    outputs,      \* batch position -> what the driver has written for that sample
    offsetResult  \* what the last public call offsetYieldPoint(n) returned

vars == <<batch, pc, args, self, writes, stages, warned, error, outputs, offsetResult>>

-----------------------------------------------------------------------------
(* Bounds of the model *)

\* smallest and largest number of samples of an input file
MinN == 9
MaxN == 15
\* the last TailLen samples of the force column are free, the ones before lie on a ramp
TailLen == 2
\* number of entries of files_lengths_diameters that the model runs
BatchSize == 2

-----------------------------------------------------------------------------
(* Exact rational arithmetic *)

Abs(x) == IF x < 0 THEN -x ELSE x

RECURSIVE GCD(_, _)
GCD(a, b) == IF b = 0 THEN a ELSE GCD(b, a % b)

Rat(a, b) ==
    LET s == IF b < 0 THEN -1 ELSE 1
        g == GCD(Abs(a), Abs(b))
    IN  [n |-> (s * a) \div g, d |-> (s * b) \div g]

FromInt(a) == [n |-> a, d |-> 1]
Zero == FromInt(0)
One == FromInt(1)

RNeg(p) == [n |-> -p.n, d |-> p.d]

RAdd(p, q) ==
    LET g == GCD(p.d, q.d)
    IN  Rat(p.n * (q.d \div g) + q.n * (p.d \div g), (p.d \div g) * q.d)

RSub(p, q) == RAdd(p, RNeg(q))

RMul(p, q) ==
    LET g1 == GCD(Abs(p.n), q.d)
        g2 == GCD(Abs(q.n), p.d)
    IN  Rat((p.n \div g1) * (q.n \div g2), (p.d \div g2) * (q.d \div g1))

\* q nonzero
RDiv(p, q) == RMul(p, Rat(q.d, q.n))

\* p < q for 0 <= p, q < 1 given as numerator/denominator pairs, by continued fractions
RECURSIVE FracLess(_, _, _, _)
FracLess(a, b, c, d) ==
    IF c = 0 THEN FALSE
    ELSE IF a = 0 THEN TRUE
    ELSE LET q1 == b \div a
             q2 == d \div c
         IN  IF q1 # q2 THEN q2 < q1
             ELSE FracLess(d % c, c, b % a, a)

\* p < q, without forming the cross products
RLess(p, q) ==
    LET fp == p.n \div p.d
        fq == q.n \div q.d
    IN  IF fp # fq THEN fp < fq
        ELSE FracLess(p.n % p.d, p.d, q.n % q.d, q.d)

RLeq(p, q) == ~RLess(q, p)

\* +np.infty, and comparison against it
Infty == [n |-> 1, d |-> 0]
LessThan(p, q) ==
    IF p.d = 0 THEN FALSE
    ELSE IF q.d = 0 THEN TRUE
    ELSE RLess(p, q)

-----------------------------------------------------------------------------
(* numpy arrays as sequences, with Python's indices *)

At(s, i) == s[i + 1]
Prefix(s, L) == SubSeq(s, 1, L)
Indices(s) == 0 .. (Len(s) - 1)

\* s[lo] + ... + s[hi], summed by halves
RECURSIVE SumRange(_, _, _)
SumRange(s, lo, hi) ==
    IF lo > hi THEN Zero
    ELSE IF lo = hi THEN s[lo]
    ELSE LET mid == (lo + hi) \div 2
         IN  RAdd(SumRange(s, lo, mid), SumRange(s, mid + 1, hi))

Sum(s) == SumRange(s, 1, Len(s))

Products(x, y) == [i \in 1 .. Len(x) |-> RMul(x[i], y[i])]

\* np.argwhere(mask).flatten(): the indices where the mask holds, ascending
argwhere(mask) ==
    SelectSeq([k \in 1 .. Len(mask) |-> k - 1], LAMBDA i : At(mask, i))

\* array[mask]: the elements of s whose index satisfies the mask, in order
Masked(s, mask) ==
    LET kept == argwhere(mask)
    IN  [k \in 1 .. Len(kept) |-> At(s, kept[k])]

-----------------------------------------------------------------------------
(* Inputs: the CSV files and the specimen dimensions a caller may pass *)

\* slope of the ramp at the start of the force column, force units per sample
RampSlope == 2
\* what the force may do from one free sample to the next: drop, rise less than
\* on the ramp, rise more
Steps == {-1, RampSlope - 1, RampSlope + 1}
Columns == {"force", "displacement", "time"}
\* the (length, diameter) pairs a caller passes; the constructor takes any number
Dimensions == {<<1, 1>>, <<2, 1>>, <<-1, 1>>, <<1, -1>>}

\* the force of the first row: none, or one unit of preload
Preloads == {0, 1}

\* a well-formed file: N rows; the force starts at preload, follows the ramp and
\* then the steps of tail; the displacement rises by one unit per row, and with
\* hold its last row repeats the displacement of the row before
CurveFiles ==
    [N : MinN .. MaxN, tail : [1 .. TailLen -> Steps], hold : BOOLEAN,
     preload : Preloads, columns : {Columns}]

\* files that lack a column
MalformedFiles ==
    [N : {MaxN}, tail : {[j \in 1 .. TailLen |-> RampSlope]}, hold : {FALSE},
     preload : {0}, columns : {Columns \ {c} : c \in Columns}]

Files == CurveFiles \cup MalformedFiles

RECURSIVE forceAt(_, _)
forceAt(file, i) ==
    LET ramp == file.N - TailLen
    IN  IF i < ramp THEN file.preload + RampSlope * i
        ELSE forceAt(file, i - 1) + file.tail[i - ramp + 1]

\* df['force'], df['displacement'], df['time'] of pd.read_csv(file)
column(file, name) ==
    [k \in 1 .. file.N |->
        IF name = "force" THEN forceAt(file, k - 1)
        ELSE IF name = "displacement"
             THEN (IF file.hold /\ k = file.N THEN k - 2 ELSE k - 1)
        ELSE k - 1]

-----------------------------------------------------------------------------
(* The object under construction *)

\* self.name = value
Set(o, name, value) ==
    [a \in DOMAIN o \cup {name} |-> IF a = name THEN value ELSE o[a]]

Has(o, name) == name \in DOMAIN o

\* the assignment counters after assigning each attribute of names once more
Count(w, names) ==
    [a \in DOMAIN w \cup names |->
        (IF a \in DOMAIN w THEN w[a] ELSE 0) + (IF a \in names THEN 1 ELSE 0)]

NoObject == [a \in {} |-> 0]

-----------------------------------------------------------------------------
(* The computations of the stages *)

\* self.displacement / self.length
engineeringStrain(o) ==
    [k \in 1 .. Len(o.displacement) |-> RDiv(FromInt(o.displacement[k]), o.length)]

\* self.force / self.area
engineeringStress(o) ==
    [k \in 1 .. Len(o.force) |-> RDiv(FromInt(o.force[k]), o.area)]

\* _engineering2real: log(1 + strain) is kept as the argument of the logarithm
engineering2real(strain, stress) ==
    [realStrain |-> [k \in 1 .. Len(strain) |-> [log |-> RAdd(One, strain[k])]],
     realStress |-> [k \in 1 .. Len(stress) |-> RMul(stress[k], RAdd(One, strain[k]))]]

\* np.polyfit(x, y, deg = 1, cov = True): the least-squares line and the (0,0)
\* entry of the scaled covariance matrix, inv(X^T X)[0][0] * resids / (len(x) - 2)
polyfit(x, y) ==
    LET L == FromInt(Len(x))
        Sx == Sum(x)
        Sy == Sum(y)
        Dxx == RSub(RMul(L, Sum(Products(x, x))), RMul(Sx, Sx))
        Dxy == RSub(RMul(L, Sum(Products(x, y))), RMul(Sx, Sy))
        Dyy == RSub(RMul(L, Sum(Products(y, y))), RMul(Sy, Sy))
        slope == RDiv(Dxy, Dxx)
        intercept == RDiv(RSub(Sy, RMul(slope, Sx)), L)
        resids == RDiv(RSub(Dyy, RMul(slope, Dxy)), L)
        fac == RDiv(resids, FromInt(Len(x) - 2))
    IN  [polynomial |-> <<slope, intercept>>,
         cov00 |-> RMul(RDiv(L, Dxx), fac)]

\* np.arange(start, stop)
arange(start, stop) == start .. (stop - 1)

\* a search in which a later prefix of equal residual replaces the earlier one
improvesOrTies(residual, minimumResidual) == ~LessThan(minimumResidual, residual)

\* residual < minimumResidual
improves(residual, minimumResidual) == LessThan(residual, minimumResidual)

\* shortest prefix the proportionality search fits
MinPrefix == 10

\* the loop of _defineElasticModulusAndProportionalityLimit from prefix length
\* `length` on; found carries minimumResidual and the two locals the loop binds
RECURSIVE scan(_, _, _)
scan(o, length, found) ==
    IF length \notin arange(MinPrefix, Len(o.stress)) THEN found
    ELSE LET fit == polyfit(Prefix(o.strain, length), Prefix(o.stress, length))
             residual == fit.cov00
         IN  scan(o, length + 1,
                  IF improves(residual, found.minimumResidual)
                  THEN [bound |-> TRUE,
                        minimumResidual |-> residual,
                        proportionalityLimitLocation |-> length,
                        angularCoefficient |-> fit.polynomial[1]]
                  ELSE found)

\* a search that starts from the first sample as its answer
NothingFoundDefault ==
    [bound |-> TRUE, minimumResidual |-> Infty,
     proportionalityLimitLocation |-> 0, angularCoefficient |-> Zero]

\* before the loop: minimumResidual = +np.infty, the two locals not yet bound
NothingFound ==
    [bound |-> FALSE, minimumResidual |-> Infty,
     proportionalityLimitLocation |-> 0, angularCoefficient |-> Zero]

proportionalitySearch(o) == scan(o, MinPrefix, NothingFound)

\* an elastic line shifted towards smaller strains
elasticLineShiftedBack(o, n) ==
    [k \in 1 .. Len(o.strain) |-> RMul(o.elasticModulus, RAdd(o.strain[k], n))]

\* elasticLine(n) = self.elasticModulus * (self.strain - n)
elasticLine(o, n) ==
    [k \in 1 .. Len(o.strain) |-> RMul(o.elasticModulus, RSub(o.strain[k], n))]

\* self.stress - elasticLine(n) < 0
belowLine(o, n) ==
    [k \in 1 .. Len(o.stress) |-> RLess(RSub(o.stress[k], elasticLine(o, n)[k]), Zero)]

\* hits[-1]
pickLast(hits) == hits[Len(hits)]

\* hits[0]
pick(hits) == hits[1]

\* offsetYieldPoint(n): the returned pair, or the IndexError of [0] on no hit
offsetYieldPoint(o, n) ==
    LET hits == argwhere(belowLine(o, n))
    IN  IF hits = <<>> THEN [raised |-> TRUE]
        ELSE LET intersection == pick(hits)
             IN  [raised |-> FALSE,
                  strain |-> At(o.strain, intersection),
                  stress |-> At(o.stress, intersection)]

\* the offset of the default yield point, 0.2E-2
DefaultOffset == Rat(2, 1000)

\* np.argmax(s): the first index of the largest element
argmax(s) ==
    CHOOSE i \in Indices(s) :
        /\ \A j \in Indices(s) : RLeq(At(s, j), At(s, i))
        /\ \A j \in 0 .. (i - 1) : RLess(At(s, j), At(s, i))

\* an elastic region that runs up to the ultimate point
elasticUpToUltimate(o) ==
    [k \in 1 .. Len(o.strain) |-> RLess(o.strain[k], o.ultimateStrain)]

\* a plastic region closed at the yield point
plasticFromYield(o) ==
    [k \in 1 .. Len(o.strain) |->
        RLeq(o.yieldStrain, o.strain[k]) /\ RLess(o.strain[k], o.ultimateStrain)]

\* a necking region closed at the ultimate point
neckingFromUltimate(o) ==
    [k \in 1 .. Len(o.strain) |-> RLeq(o.ultimateStrain, o.strain[k])]

\* the three masks of the segmenter
elasticBehavior(o) ==
    [k \in 1 .. Len(o.strain) |-> RLess(o.strain[k], o.yieldStrain)]
plasticBehavior(o) ==
    [k \in 1 .. Len(o.strain) |->
        RLess(o.yieldStrain, o.strain[k]) /\ RLess(o.strain[k], o.ultimateStrain)]
neckingBehavior(o) ==
    [k \in 1 .. Len(o.strain) |-> RLess(o.ultimateStrain, o.strain[k])]

\* scipy.integrate.trapz(x = x, y = y): sum of (x[k+1] - x[k]) * (y[k+1] + y[k]) / 2
trapz(x, y) ==
    Sum([k \in 1 .. (Len(x) - 1) |->
            RMul(RSub(x[k + 1], x[k]), RDiv(RAdd(y[k + 1], y[k]), FromInt(2)))])

\* a toughness taken over the plastic and necking regions only
plasticAndNecking(o) ==
    [x |-> o.plasticStrain \o o.neckingStrain, y |-> o.plasticStress \o o.neckingStress]

\* the arrays _defineToughnessModulus integrates: self.strain, self.stress
toughnessCurve(o) == [x |-> o.strain, y |-> o.stress]

\* scipy.optimize.curve_fit refuses fewer points than the two parameters K, n
\* and non-finite data (log of a non-positive number)
fitRefused(o) ==
    \/ Len(o.plasticStrain) < 2
    \/ \E k \in 1 .. Len(o.plasticStrain) : RLeq(RAdd(One, o.plasticStrain[k]), Zero)

-----------------------------------------------------------------------------
(* The statements of TensileTest.__init__, in order *)

\* a constructor that locates the ultimate point before the yield point
UltimateBeforeYield ==
    <<"readFromFile", "defineDimensions", "defineEngineeringCurve", "defineRealCurve",
      "defineElasticModulusAndProportionalityLimit", "defineUltimateStrength",
      "defineYieldStrength", "correctYieldStrength", "defineElasticBehavior",
      "definePlasticBehavior", "defineNeckingBehavior", "defineResilienceModulus",
      "defineToughnessModulus", "defineHardening">>

StageOrder ==
    <<"readFromFile", "defineDimensions", "defineEngineeringCurve", "defineRealCurve",
      "defineElasticModulusAndProportionalityLimit", "defineYieldStrength",
      "defineUltimateStrength", "correctYieldStrength", "defineElasticBehavior",
      "definePlasticBehavior", "defineNeckingBehavior", "defineResilienceModulus",
      "defineToughnessModulus", "defineHardening">>

\* the attributes each method of __init__ reads
Reads ==
    [readFromFile |-> {},
     defineDimensions |-> {},
     defineEngineeringCurve |-> {"displacement", "length", "force", "area"},
     defineRealCurve |-> {"strain", "stress"},
     defineElasticModulusAndProportionalityLimit |-> {"strain", "stress"},
     defineYieldStrength |-> {"elasticModulus", "strain", "stress"},
     defineUltimateStrength |-> {"strain", "stress"},
     correctYieldStrength |->
         {"yieldStrain", "ultimateStrain", "proportionalityStrain",
          "proportionalityStrength", "originalFile"},
     defineElasticBehavior |-> {"strain", "stress", "yieldStrain"},
     definePlasticBehavior |-> {"strain", "stress", "yieldStrain", "ultimateStrain"},
     defineNeckingBehavior |-> {"strain", "stress", "ultimateStrain"},
     defineResilienceModulus |-> {"elasticStrain", "elasticStress"},
     defineToughnessModulus |-> {"strain", "stress"},
     defineHardening |-> {"plasticStrain", "plasticStress"}]

\* where control goes when the method `stage` returns
after(stage) ==
    LET k == CHOOSE j \in 1 .. Len(StageOrder) : StageOrder[j] = stage
    IN  IF k = Len(StageOrder) THEN "constructed" ELSE StageOrder[k + 1]

\* the offsets with which a caller asks for offsetYieldPoint(n)
Offsets == {Rat(2, 1000), Rat(4, 1000), Rat(1, 2), FromInt(1)}

NoResult == [called |-> FALSE]

\* no constructor call is running
NoCall == [file |-> CHOOSE f \in MalformedFiles : TRUE, length |-> 0, diameter |-> 0]

Init ==
    /\ batch = 1
    /\ pc = "loop"
    /\ args = NoCall
    /\ self = NoObject
    /\ writes = NoObject
    /\ stages = <<>>
    /\ warned = <<>>
    /\ error = "none"
    /\ outputs = [k \in 1 .. BatchSize |-> "none"]
    /\ offsetResult = NoResult

\* the method `stage` returns normally, having assigned the attributes `names`
Return(stage, o, names) ==
    /\ self' = o
    /\ writes' = Count(writes, names)
    /\ stages' = Append(stages, stage)
    /\ pc' = after(stage)
    /\ UNCHANGED <<batch, args, warned, error, outputs, offsetResult>>

\* the method raises after assigning `names`; nothing in __init__ or in the script
\* catches it, so the script ends
Raise(exception, o, names) ==
    /\ self' = o
    /\ writes' = Count(writes, names)
    /\ pc' = "raised"
    /\ error' = exception
    /\ UNCHANGED <<batch, args, stages, warned, outputs, offsetResult>>

\* for rootName, length, diameter in files_lengths_diameters: the next entry, and
\* the call mect.TensileTest(file, length, diameter)
Construct ==
    /\ pc = "loop"
    /\ batch <= BatchSize
    /\ \E file \in Files, dimensions \in Dimensions :
           args' = [file |-> file, length |-> dimensions[1], diameter |-> dimensions[2]]
    /\ self' = NoObject
    /\ writes' = NoObject
    /\ stages' = <<>>
    /\ warned' = <<>>
    /\ offsetResult' = NoResult
    /\ pc' = StageOrder[1]
    /\ UNCHANGED <<batch, error, outputs>>

\* the loop is exhausted and the script ends
Exit ==
    /\ pc = "loop"
    /\ batch > BatchSize
    /\ pc' = "exit"
    /\ UNCHANGED <<batch, args, self, writes, stages, warned, error, outputs, offsetResult>>

\* the attributes _readFromFile assigns from the columns it finds, in its order
RECURSIVE readColumns(_, _, _)
readColumns(o, file, names) ==
    IF names = <<>> \/ Head(names) \notin file.columns THEN o
    ELSE readColumns(Set(o, Head(names), column(file, Head(names))), file, Tail(names))

readFromFile ==
    /\ pc = "readFromFile"
    /\ LET file == args.file
           o == readColumns(Set(self, "originalFile", file), file,
                            <<"force", "displacement", "time">>)
       IN  IF Columns \subseteq file.columns
           THEN Return("readFromFile", o, DOMAIN o)
           ELSE Raise("KeyError", o, DOMAIN o)

defineDimensions ==
    /\ pc = "defineDimensions"
    /\ LET o1 == Set(self, "length", FromInt(args.length))
           o2 == Set(o1, "diameter", FromInt(args.diameter))
           o3 == Set(o2, "area", RMul(o2.diameter, o2.diameter))
       IN  Return("defineDimensions", o3, {"length", "diameter", "area"})

defineEngineeringCurve ==
    /\ pc = "defineEngineeringCurve"
    /\ LET o1 == Set(self, "strain", engineeringStrain(self))
           o2 == Set(o1, "stress", engineeringStress(o1))
       IN  Return("defineEngineeringCurve", o2, {"strain", "stress"})

defineRealCurve ==
    /\ pc = "defineRealCurve"
    /\ LET real == engineering2real(self.strain, self.stress)
           o == Set(Set(self, "realStrain", real.realStrain), "realStress", real.realStress)
       IN  Return("defineRealCurve", o, {"realStrain", "realStress"})

defineElasticModulusAndProportionalityLimit ==
    /\ pc = "defineElasticModulusAndProportionalityLimit"
    /\ \E found \in {proportionalitySearch(self)} :
       LET o1 == Set(self, "proportionalityStrength",
                     At(self.stress, found.proportionalityLimitLocation))
           o2 == Set(o1, "proportionalityStrain",
                     At(self.strain, found.proportionalityLimitLocation))
           o3 == Set(o2, "elasticModulus", found.angularCoefficient)
       IN  IF found.bound
           THEN Return("defineElasticModulusAndProportionalityLimit", o3,
                       {"proportionalityStrength", "proportionalityStrain", "elasticModulus"})
           ELSE Raise("UnboundLocalError", self, {})

defineYieldStrength ==
    /\ pc = "defineYieldStrength"
    /\ \E point \in {offsetYieldPoint(self, DefaultOffset)} :
       LET o == Set(Set(self, "yieldStrain", point.strain), "yieldStrength", point.stress)
       IN  IF point.raised
           THEN Raise("IndexError", self, {})
           ELSE Return("defineYieldStrength", o, {"yieldStrain", "yieldStrength"})

defineUltimateStrength ==
    /\ pc = "defineUltimateStrength"
    /\ LET ultimateLocation == argmax(self.stress)
           o1 == Set(self, "ultimateStrain", At(self.strain, ultimateLocation))
           o2 == Set(o1, "ultimateStrength", At(self.stress, ultimateLocation))
       IN  Return("defineUltimateStrength", o2, {"ultimateStrain", "ultimateStrength"})

\* if self.yieldStrain > self.ultimateStrain
illPosedYield(o) == RLess(o.ultimateStrain, o.yieldStrain)

correctYieldStrength ==
    /\ pc = "correctYieldStrength"
    /\ IF illPosedYield(self)
       THEN /\ self' = Set(Set(self, "yieldStrain", self.proportionalityStrain),
                           "yieldStrength", self.proportionalityStrength)
            /\ writes' = Count(writes, {"yieldStrain", "yieldStrength"})
            /\ warned' = Append(warned, self.originalFile)
       ELSE UNCHANGED <<self, writes, warned>>
    /\ stages' = Append(stages, "correctYieldStrength")
    /\ pc' = after("correctYieldStrength")
    /\ UNCHANGED <<batch, args, error, outputs, offsetResult>>

defineElasticBehavior ==
    /\ pc = "defineElasticBehavior"
    /\ \E mask \in {elasticBehavior(self)} :
       LET o == Set(Set(self, "elasticStrain", Masked(self.strain, mask)),
                    "elasticStress", Masked(self.stress, mask))
       IN  Return("defineElasticBehavior", o, {"elasticStrain", "elasticStress"})

definePlasticBehavior ==
    /\ pc = "definePlasticBehavior"
    /\ \E mask \in {plasticBehavior(self)} :
       LET o == Set(Set(self, "plasticStrain", Masked(self.strain, mask)),
                    "plasticStress", Masked(self.stress, mask))
       IN  Return("definePlasticBehavior", o, {"plasticStrain", "plasticStress"})

defineNeckingBehavior ==
    /\ pc = "defineNeckingBehavior"
    /\ \E mask \in {neckingBehavior(self)} :
       LET o == Set(Set(self, "neckingStrain", Masked(self.strain, mask)),
                    "neckingStress", Masked(self.stress, mask))
       IN  Return("defineNeckingBehavior", o, {"neckingStrain", "neckingStress"})

defineResilienceModulus ==
    /\ pc = "defineResilienceModulus"
    /\ Return("defineResilienceModulus",
              Set(self, "resilienceModulus", trapz(self.elasticStrain, self.elasticStress)),
              {"resilienceModulus"})

defineToughnessModulus ==
    /\ pc = "defineToughnessModulus"
    /\ Return("defineToughnessModulus",
              Set(self, "toughnessModulus",
                  trapz(toughnessCurve(self).x, toughnessCurve(self).y)),
              {"toughnessModulus"})

\* the fitted (K, n) are not computed: they are recorded as the fit of the real
\* plastic curve; curve_fit may also end in RuntimeError (no convergence)
defineHardening ==
    /\ pc = "defineHardening"
    /\ LET real == engineering2real(self.plasticStrain, self.plasticStress)
           fitted == [hollomon |-> real]
           o == Set(Set(self, "strengthCoefficient", [K |-> fitted]),
                    "strainHardeningExponent", [n |-> fitted])
       IN  IF fitRefused(self)
           THEN Raise("TypeError", self, {})
           ELSE \/ Return("defineHardening", o,
                          {"strengthCoefficient", "strainHardeningExponent"})
                \/ Raise("RuntimeError", self, {})

\* a caller holding the finished object asks for offsetYieldPoint(n); it keeps
\* the result, and the result of the call before it
callOffsetYieldPoint ==
    /\ pc = "constructed"
    /\ \E n \in Offsets :
           offsetResult' = [called |-> TRUE, n |-> n, point |-> offsetYieldPoint(self, n),
                            before |-> IF offsetResult.called
                                       THEN [called |-> TRUE, n |-> offsetResult.n,
                                             point |-> offsetResult.point]
                                       ELSE NoResult]
    /\ UNCHANGED <<batch, pc, args, self, writes, stages, warned, error, outputs>>

\* tensile.plot, tensile.plotRealCurve, tensile.saveSummaryOfProperties, and on
\* to the next entry of the list; the object is not used again (the next
\* iteration rebinds the name `tensile`), so the model drops it here
writeOutputs ==
    /\ pc = "constructed"
    /\ outputs' = [outputs EXCEPT ![batch] = "saved"]
    /\ batch' = batch + 1
    /\ pc' = "loop"
    /\ self' = NoObject
    /\ writes' = NoObject
    /\ stages' = <<>>
    /\ warned' = <<>>
    /\ offsetResult' = NoResult
    /\ args' = NoCall
    /\ UNCHANGED error

Next ==
    \/ Construct
    \/ Exit
    \/ readFromFile
    \/ defineDimensions
    \/ defineEngineeringCurve
    \/ defineRealCurve
    \/ defineElasticModulusAndProportionalityLimit
    \/ defineYieldStrength
    \/ defineUltimateStrength
    \/ correctYieldStrength
    \/ defineElasticBehavior
    \/ definePlasticBehavior
    \/ defineNeckingBehavior
    \/ defineResilienceModulus
    \/ defineToughnessModulus
    \/ defineHardening
    \/ callOffsetYieldPoint
    \/ writeOutputs

Spec == Init /\ [][Next]_vars

-----------------------------------------------------------------------------
(* Vocabulary of the properties *)

\* the method `stage` has returned during the running construction
Ran(stage) == \E k \in 1 .. Len(stages) : stages[k] = stage

\* __init__ has returned the object to its caller
Finished == pc = "constructed"

Segmented == Ran("defineNeckingBehavior")

\* the yield correction replaced the yield point during the running construction
CorrectionFired == warned # <<>>

\* sample i lies in the region, by the mask the region was cut with
InElastic(i) == At(elasticBehavior(self), i)
InPlastic(i) == At(plasticBehavior(self), i)
InNecking(i) == At(neckingBehavior(self), i)

RegionsOf(i) ==
    (IF InElastic(i) THEN 1 ELSE 0) + (IF InPlastic(i) THEN 1 ELSE 0)
        + (IF InNecking(i) THEN 1 ELSE 0)

\* the strain of sample i is the yield strain or the ultimate strain
OnBoundary(i) ==
    At(self.strain, i) = self.yieldStrain \/ At(self.strain, i) = self.ultimateStrain

\* the regions as stored are the curve cut by the masks
RegionsStored ==
    /\ self.elasticStrain = Masked(self.strain, elasticBehavior(self))
    /\ self.plasticStrain = Masked(self.strain, plasticBehavior(self))
    /\ self.neckingStrain = Masked(self.strain, neckingBehavior(self))

-----------------------------------------------------------------------------
(* C1 *)

\* C1 (as claimed): on every finished record the key points are ordered,
\* proportionalityStrain <= yieldStrain <= ultimateStrain <= strain[N-1].
C1_KeyPointsOrdered ==
    Finished =>
        /\ RLeq(self.proportionalityStrain, self.yieldStrain)
        /\ RLeq(self.yieldStrain, self.ultimateStrain)
        /\ RLeq(self.ultimateStrain, At(self.strain, Len(self.strain) - 1))

-----------------------------------------------------------------------------
(* C2 *)

-----------------------------------------------------------------------------
(* C3 *)

\* C3: in every finished record each sample whose strain differs from the yield
\* strain and from the ultimate strain belongs to exactly one region, also when
\* the yield correction replaced the yield point.
C3_InteriorSamplesInOneRegion ==
    Finished =>
        /\ RegionsStored
        /\ \A i \in Indices(self.strain) : ~OnBoundary(i) => RegionsOf(i) = 1

\* C3 witness: a finished record on which the correction fired, with samples off
\* the boundary in every region.
C3_Witness ==
    /\ Finished
    /\ CorrectionFired
    /\ \E i, j, k \in Indices(self.strain) :
          /\ ~OnBoundary(i) /\ ~OnBoundary(j) /\ ~OnBoundary(k)
          /\ InElastic(i) /\ InPlastic(j) /\ InNecking(k)

-----------------------------------------------------------------------------
(* C4 *)

\* C4 (as claimed): the correction stage replaces the yield point by the
\* proportionality point, warns with the name of the file and lets the pipeline
\* go on exactly when yieldStrain > ultimateStrain, leaves the yield point alone
\* and does not warn otherwise, and in both cases leaves yieldStrain <= ultimateStrain.
C4_YieldCorrection ==
    [][pc = "correctYieldStrength" =>
          /\ RLess(self.ultimateStrain, self.yieldStrain) =>
                /\ self'.yieldStrain = self.proportionalityStrain
                /\ self'.yieldStrength = self.proportionalityStrength
                /\ warned' = <<self.originalFile>>
                /\ pc' = "defineElasticBehavior"
                /\ error' = "none"
          /\ RLeq(self.yieldStrain, self.ultimateStrain) =>
                /\ self' = self
                /\ warned' = <<>>
          /\ RLeq(self'.yieldStrain, self'.ultimateStrain)]_vars

-----------------------------------------------------------------------------
(* C5 *)

\* the fits of the first L samples, for each L of range
FitsOver(range) ==
    {[L |-> L, fit |-> polyfit(Prefix(self.strain, L), Prefix(self.stress, L))] :
        L \in range}

\* w is the fit of the smallest prefix length whose residual is the minimum over fits
FirstMinimum(w, fits) ==
    /\ w \in fits
    /\ \A v \in fits : RLeq(w.fit.cov00, v.fit.cov00)
    /\ \A v \in fits : v.L < w.L => RLess(w.fit.cov00, v.fit.cov00)

\* the record holds the slope of the fit w and the curve sample of index w.L
HoldsWinner(w) ==
    /\ w.L \in Indices(self.strain)
    /\ self.elasticModulus = w.fit.polynomial[1]
    /\ self.proportionalityStrain = At(self.strain, w.L)
    /\ self.proportionalityStrength = At(self.stress, w.L)

Searched == pc = "defineYieldStrength"

-----------------------------------------------------------------------------
(* C6 *)

\* sample i lies below the elastic line shifted by n
Below(i, n) ==
    RLess(RSub(At(self.stress, i),
               RMul(self.elasticModulus, RSub(At(self.strain, i), n))), Zero)

\* (strain, stress) is the first sample below the elastic line shifted by n
FirstCrossing(strain, stress, n) ==
    \E i \in Indices(self.strain) :
        /\ strain = At(self.strain, i)
        /\ stress = At(self.stress, i)
        /\ Below(i, n)
        /\ \A j \in 0 .. (i - 1) : ~Below(j, n)

\* C6: offsetYieldPoint(n) returns the first sample below the elastic line
\* shifted by n (and raises only when no sample is below it); the yield point set
\* during construction is that sample for n = 0.002.
C6_OffsetYieldIsFirstCrossing ==
    /\ offsetResult.called =>
          IF offsetResult.point.raised
          THEN \A i \in Indices(self.strain) : ~Below(i, offsetResult.n)
          ELSE FirstCrossing(offsetResult.point.strain, offsetResult.point.stress,
                             offsetResult.n)
    /\ pc = "defineUltimateStrength" =>
          FirstCrossing(self.yieldStrain, self.yieldStrength, Rat(2, 1000))

\* C6 witness: a call with the offset 0.004 that returned a sample other than
\* the first one of the curve, with later samples below the line as well.
C6_Witness ==
    /\ offsetResult.called
    /\ offsetResult.n = Rat(4, 1000)
    /\ ~offsetResult.point.raised
    /\ offsetResult.point.strain # At(self.strain, 0)
    /\ Cardinality({i \in Indices(self.strain) : Below(i, offsetResult.n)}) >= 2

-----------------------------------------------------------------------------
(* C7 *)

\* what the proportionality search assigns, and what the stages after it assign
SearchAttributes == {"proportionalityStrength", "proportionalityStrain", "elasticModulus"}
YieldAttributes == {"yieldStrain", "yieldStrength"}
LaterAttributes ==
    {"ultimateStrain", "ultimateStrength", "elasticStrain", "elasticStress",
     "plasticStrain", "plasticStress", "neckingStrain", "neckingStress",
     "resilienceModulus", "toughnessModulus", "strengthCoefficient",
     "strainHardeningExponent"}

\* the curve has at most 10 samples
TooShort == Has(self, "stress") /\ Len(self.stress) <= 10

\* the search ended and no sample lies below the elastic line shifted by 0.002
\* (the samples are tried from the last one back)
NeverCrosses ==
    /\ Has(self, "elasticModulus")
    /\ \A back \in Indices(self.strain) :
          ~Below(Len(self.strain) - 1 - back, Rat(2, 1000))

\* C7: with at most 10 samples the construction never gets past the search, and
\* with no sample below the offset line never past the yield locator; it can only
\* end in the error of that stage, which reaches the caller; no point is set in
\* its place, no later stage runs and no record is handed out.
C7_DegenerateSearchFails ==
    /\ TooShort =>
          /\ pc \in {"defineRealCurve", "defineElasticModulusAndProportionalityLimit",
                     "raised"}
          /\ pc = "raised" => error = "UnboundLocalError"
          /\ DOMAIN self \cap (SearchAttributes \cup YieldAttributes \cup LaterAttributes) = {}
          /\ ~Ran("defineElasticModulusAndProportionalityLimit")
          /\ outputs[batch] = "none"
    /\ NeverCrosses =>
          /\ pc \in {"defineYieldStrength", "raised"}
          /\ pc = "raised" => error = "IndexError"
          /\ DOMAIN self \cap (YieldAttributes \cup LaterAttributes) = {}
          /\ ~Ran("defineYieldStrength")
          /\ outputs[batch] = "none"

\* C7 witness: the script ended by the error of the search on a curve of exactly
\* 10 samples.
C7_Witness ==
    /\ pc = "raised"
    /\ error = "UnboundLocalError"
    /\ Len(self.stress) = 10

\* the other degenerate case is reached as well: a curve that never crosses
C7_NeverCrossesReached ==
    pc = "raised" /\ error = "IndexError" /\ NeverCrosses

-----------------------------------------------------------------------------
(* C8 *)

Malformed ==
    \/ args.length <= 0
    \/ args.diameter <= 0
    \/ ~(Columns \subseteq args.file.columns)

DerivedStages ==
    {"defineEngineeringCurve", "defineRealCurve",
     "defineElasticModulusAndProportionalityLimit", "defineYieldStrength",
     "defineUltimateStrength", "correctYieldStrength", "defineElasticBehavior",
     "definePlasticBehavior", "defineNeckingBehavior", "defineResilienceModulus",
     "defineToughnessModulus", "defineHardening"}

\* C8 (as claimed): a construction called with a non-positive length or diameter
\* or with a file that lacks a column runs no derived stage and hands out no record.
C8_MalformedInputRejected ==
    (pc \notin {"loop", "exit"} /\ Malformed) =>
        /\ \A stage \in DerivedStages : ~Ran(stage)
        /\ ~Finished

-----------------------------------------------------------------------------
(* C9 *)

\* the component of the pipeline each method belongs to, numbered in the order
\* Curve Builder (1), Proportionality Estimator (2), Yield Locator (3), Ultimate
\* Locator (4), Yield Correction (5), Region Segmenter (6), Energy Integrator (7),
\* Hardening Fitter (8); 0 is the intake of the raw input
Component(stage) ==
    CASE stage \in {"readFromFile", "defineDimensions"} -> 0
      [] stage \in {"defineEngineeringCurve", "defineRealCurve"} -> 1
      [] stage = "defineElasticModulusAndProportionalityLimit" -> 2
      [] stage = "defineYieldStrength" -> 3
      [] stage = "defineUltimateStrength" -> 4
      [] stage = "correctYieldStrength" -> 5
      [] stage \in {"defineElasticBehavior", "definePlasticBehavior",
                    "defineNeckingBehavior"} -> 6
      [] stage \in {"defineResilienceModulus", "defineToughnessModulus"} -> 7
      [] stage = "defineHardening" -> 8

DerivedAttributes ==
    {"strain", "stress", "realStrain", "realStress"}
        \cup SearchAttributes \cup YieldAttributes \cup LaterAttributes

\* the stages ran in the order of the components, none twice, and all of them
\* when the record is finished
InStageOrder ==
    /\ \A j, k \in 1 .. Len(stages) :
          j < k => stages[j] # stages[k] /\ Component(stages[j]) <= Component(stages[k])
    /\ \A k \in 1 .. Len(stages) : \A c \in 0 .. (Component(stages[k]) - 1) :
          \E j \in 1 .. (k - 1) : Component(stages[j]) = c
    /\ Finished => Len(stages) = 14 /\ DerivedAttributes \subseteq DOMAIN self

\* the stage about to run finds every attribute it reads
ReadsAssigned == pc \in DOMAIN Reads => Reads[pc] \subseteq DOMAIN self

\* the raw columns are as they were read
RawUntouched ==
    \A c \in {"force", "displacement", "time"} :
        Has(self, c) => self[c] = column(args.file, c)

\* C9 (as claimed): every derived field is assigned exactly once, in the fixed
\* stage order, never read before it is assigned, never overwritten, and the raw
\* sequences are never modified.
C9_EveryFieldAssignedOnce ==
    /\ InStageOrder
    /\ ReadsAssigned
    /\ RawUntouched
    /\ DOMAIN writes = DOMAIN self
    /\ \A a \in DOMAIN writes : writes[a] = 1

\* C9 (amended): as claimed, except that yieldStrain and yieldStrength are
\* assigned a second time, by the Yield Correction stage, on the constructions on
\* which the correction fires (and only then, and only these two fields).
C9_AssignedOnceButCorrectedYield ==
    /\ InStageOrder
    /\ ReadsAssigned
    /\ RawUntouched
    /\ DOMAIN writes = DOMAIN self
    /\ \A a \in DOMAIN writes :
          writes[a] = IF a \in YieldAttributes /\ CorrectionFired THEN 2 ELSE 1
    /\ CorrectionFired => Ran("correctYieldStrength")

\* C9 witness: a finished record whose yield point was assigned twice.
C9_Witness ==
    /\ Finished
    /\ writes["yieldStrain"] = 2
    /\ writes["ultimateStrain"] = 1

-----------------------------------------------------------------------------
(* C10 *)

\* C10 (as claimed): when the analysis of the sample at one position of the batch
\* has failed and the script has ended, the outputs of every other position have
\* been produced.
C10_BatchIsolation ==
    pc = "raised" =>
        \A k \in 1 .. BatchSize : k # batch => outputs[k] = "saved"

-----------------------------------------------------------------------------
(* C11 *)

\* the strain does not decrease from one sample to the next
Ascending ==
    \A i \in 0 .. (Len(self.strain) - 2) : RLeq(At(self.strain, i), At(self.strain, i + 1))

PositiveStress == \A i \in Indices(self.stress) : RLess(Zero, At(self.stress, i))

\* the number of samples in the Elastic region
ElasticCount == Cardinality({i \in Indices(self.strain) : InElastic(i)})

\* C11: on every finished record with ascending strain and positive stress,
\* resilienceModulus is the trapezoidal integral over the Elastic region (the
\* first ElasticCount samples), toughnessModulus is the trapezoidal integral over
\* all N samples, and resilienceModulus <= toughnessModulus.
C11_ResilienceAtMostToughness ==
    (Finished /\ Ascending /\ PositiveStress) =>
        /\ self.resilienceModulus =
              trapz(Prefix(self.strain, ElasticCount), Prefix(self.stress, ElasticCount))
        /\ self.toughnessModulus = trapz(self.strain, self.stress)
        /\ RLeq(self.resilienceModulus, self.toughnessModulus)

\* C11 witness: a finished record with ascending strain and positive stress whose
\* resilience is positive, smaller than its toughness and larger than the
\* integral over its plastic and necking samples alone.
C11_Witness ==
    /\ Finished /\ Ascending /\ PositiveStress
    /\ RLess(Zero, self.resilienceModulus)
    /\ RLess(self.resilienceModulus, self.toughnessModulus)
    /\ RLess(trapz(plasticAndNecking(self).x, plasticAndNecking(self).y),
             self.resilienceModulus)

-----------------------------------------------------------------------------
(* C12 *)

\* the caller holds the results of two calls on the record, both of them a sample
TwoResults ==
    /\ offsetResult.called
    /\ offsetResult.before.called
    /\ ~offsetResult.point.raised
    /\ ~offsetResult.before.point.raised

\* C12: on a record with ascending strain and a positive elastic modulus, of two
\* calls of offsetYieldPoint that both returned a sample, the one with the larger
\* offset did not return the smaller strain.
C12_OffsetYieldMonotonic ==
    (TwoResults /\ Ascending /\ RLess(Zero, self.elasticModulus)) =>
        /\ RLeq(offsetResult.before.n, offsetResult.n) =>
              RLeq(offsetResult.before.point.strain, offsetResult.point.strain)
        /\ RLeq(offsetResult.n, offsetResult.before.n) =>
              RLeq(offsetResult.point.strain, offsetResult.before.point.strain)

\* C12 witness: on such a record a call with a larger offset than the call before
\* it returned a sample of strictly larger strain.
C12_Witness ==
    /\ TwoResults /\ Ascending /\ RLess(Zero, self.elasticModulus)
    /\ RLess(offsetResult.before.n, offsetResult.n)
    /\ RLess(offsetResult.before.point.strain, offsetResult.point.strain)

-----------------------------------------------------------------------------
(* C13 *)

StrictlyAscending ==
    \A i \in 0 .. (Len(self.strain) - 2) : RLess(At(self.strain, i), At(self.strain, i + 1))

\* iy and iu are the indices of the yield sample and of the ultimate sample, and
\* both lie inside the curve, the yield sample first
KeySamples(iy, iu) ==
    /\ At(self.strain, iy) = self.yieldStrain
    /\ At(self.strain, iu) = self.ultimateStrain
    /\ 0 < iy /\ iy < iu /\ iu < Len(self.strain) - 1

\* the samples lo .. hi of the sequence s, by 0-based index
Run(s, lo, hi) == SubSeq(s, lo + 1, hi + 1)

\* C13: once the segmenter has run on a curve with strictly ascending strain whose
\* yield sample iy and ultimate sample iu satisfy 0 < iy < iu < N-1, Elastic is
\* exactly the samples 0 .. iy-1, Plastic exactly the samples iy+1 .. iu-1 and
\* Necking exactly the samples iu+1 .. N-1, in the masks and in the stored arrays.
C13_RegionsAreRuns ==
    (Segmented /\ StrictlyAscending) =>
        \A iy, iu \in Indices(self.strain) :
            KeySamples(iy, iu) =>
                LET last == Len(self.strain) - 1
                IN  /\ \A i \in Indices(self.strain) :
                          /\ InElastic(i) <=> i <= iy - 1
                          /\ InPlastic(i) <=> (iy + 1 <= i /\ i <= iu - 1)
                          /\ InNecking(i) <=> iu + 1 <= i
                    /\ self.elasticStrain = Run(self.strain, 0, iy - 1)
                    /\ self.elasticStress = Run(self.stress, 0, iy - 1)
                    /\ self.plasticStrain = Run(self.strain, iy + 1, iu - 1)
                    /\ self.plasticStress = Run(self.stress, iy + 1, iu - 1)
                    /\ self.neckingStrain = Run(self.strain, iu + 1, last)
                    /\ self.neckingStress = Run(self.stress, iu + 1, last)

\* C13 witness: a segmented curve with strictly ascending strain and key samples
\* inside it, with samples between the yield sample and the ultimate sample.
C13_Witness ==
    /\ Segmented /\ StrictlyAscending
    /\ \E iy, iu \in Indices(self.strain) :
          /\ KeySamples(iy, iu)
          /\ iy + 1 < iu
          /\ self.plasticStrain = Run(self.strain, iy + 1, iu - 1)
          /\ self.neckingStrain # <<>>

=============================================================================
